---- MODULE Spec2Model ----
(***************************************************************************)
(* Model of App::send_request (src/app/app_logic/request/send.rs): the     *)
(* synchronous assembly of the HTTP call under the selected Request's      *)
(* write lock, the task it spawns, and the task's write-back steps.        *)
(*                                                                         *)
(* Texts that go through the placeholder resolver are sequences of tokens, *)
(* so that substitution, starts_with("!!") and the [2..] slice are         *)
(* computed rather than assumed.                                           *)
(***************************************************************************)
EXTENDS Integers, Sequences, FiniteSets, TLC

VARIABLES
    requests,          \* Request -> the Request struct behind its Arc<RwLock<..>>
    selected,          \* the Request get_selected_request_as_local() returns
    write_lock,        \* Request -> who holds its write lock across a suspension
    caller,            \* position of the (single, &mut self) send_request call
    tasks,             \* task id -> the task spawned by task::spawn
    last_highlighted,  \* syntax_highlighting.last_highlighted
    files,             \* paths that can currently be opened
    ret,               \* how the latest send_request call returned
    file_reads,        \* paths the latest send_request call tried to open
    wrote              \* Request -> result field -> who wrote it last

vars == <<requests, selected, write_lock, caller, tasks, last_highlighted,
          files, ret, file_reads, wrote>>

(***************************** bounds *************************************)
MaxSends == 2      \* tasks spawned in one behaviour
MaxHeaders == 3    \* length of a Request's header list (assembly inputs)
MaxPairs == 2      \* length of a multipart form (assembly inputs)

(***************************** values *************************************)
None == [some |-> FALSE]
Some(x) == [some |-> TRUE, val |-> x]

Requests == {"r1", "r2"}
TaskIds == 1..MaxSends

INVALID_URL == "INVALID URL"
COULD_NOT_OPEN_FILE == "COULD NOT OPEN FILE"
Sentinels == {INVALID_URL, COULD_NOT_OPEN_FILE}

\* PathA exists until it is removed; PathMissing never exists.
PathA == <<"/tmp/", "a.bin">>
PathMissing == <<"/tmp/", "missing.bin">>

\* The environment the placeholder resolver substitutes from.
Env == [k \in {"{{U}}", "{{P}}", "{{F}}"} |->
          CASE k = "{{U}}" -> <<"a">>
            [] k = "{{P}}" -> <<"b">>
            [] k = "{{F}}" -> <<"!!">> \o PathMissing]

RECURSIVE replace_env_keys_by_value(_)
replace_env_keys_by_value(text) ==
    IF text = <<>> THEN <<>>
    ELSE (IF Head(text) \in DOMAIN Env THEN Env[Head(text)] ELSE <<Head(text)>>)
         \o replace_env_keys_by_value(Tail(text))

\* Enabled pairs of a key/value list, each side resolved, order kept.
RECURSIVE key_value_vec_to_tuple_vec(_)
key_value_vec_to_tuple_vec(kvs) ==
    IF kvs = <<>> THEN <<>>
    ELSE (IF Head(kvs).enabled
            THEN << <<replace_env_keys_by_value(Head(kvs).data[1]),
                      replace_env_keys_by_value(Head(kvs).data[2])>> >>
            ELSE <<>>)
         \o key_value_vec_to_tuple_vec(Tail(kvs))

\* Url::parse_with_params succeeds on these resolved texts.
ValidUrls == { <<"http://", "host">>, <<"http://", "a">> }
UrlParses(url) == url \in ValidUrls

starts_with_bangs(value) == Len(value) >= 1 /\ value[1] = "!!"
path_of(value) == Tail(value)

\* get_file_content_with_name: File::open, read_to_end, file_name of the path.
get_file_content_with_name(path, fs) ==
    IF path \in fs
      THEN [ok |-> TRUE, content |-> <<"bytes of">> \o path, file_name |-> path[Len(path)]]
      ELSE [ok |-> FALSE]

Config == [proxy |-> None, disable_cors |-> None]

(************************ the Request struct ******************************)
EmptyResult == [status_code |-> None, body |-> None, headers |-> <<>>,
                cookies |-> None, duration |-> None]

KV(k, v, en) == [data |-> <<k, v>>, enabled |-> en]

DefaultSettings == [allow_redirects |-> TRUE, store_received_cookies |-> TRUE,
                    use_config_proxy |-> TRUE, pretty_print_response_content |-> TRUE]

BaseRequest ==
    [method |-> "GET",
     url |-> <<"http://", "host">>,
     params |-> << KV(<<"q">>, <<"{{U}}">>, TRUE), KV(<<"off">>, <<"x">>, FALSE) >>,
     headers |-> << KV(<<"A">>, <<"1">>, TRUE), KV(<<"B">>, <<"2">>, FALSE) >>,
     auth |-> [type |-> "BasicAuth", username |-> <<"{{U}}">>, password |-> <<"{{P}}">>],
     body |-> [type |-> "NoBody"],
     settings |-> DefaultSettings,
     is_pending |-> FALSE,
     result |-> EmptyResult]

\* Request specifications the dispatch protocol is explored on: one per way
\* send_request can return.
CoreRequests ==
    { [BaseRequest EXCEPT !.url = <<"http://", "[::badurl">>],
      [BaseRequest EXCEPT !.body = [type |-> "Multipart",
            form |-> << KV(<<"f">>, <<"!!">> \o PathA, TRUE),
                        KV(<<"k">>, <<"v">>, TRUE),
                        KV(<<"g">>, <<"!!">> \o PathA, TRUE) >>]],
      [BaseRequest EXCEPT !.body = [type |-> "File", path |-> PathA]] }

SecondRequest ==
    [BaseRequest EXCEPT !.auth = [type |-> "BearerToken", bearer_token |-> <<"{{P}}">>],
                        !.body = [type |-> "Raw", text |-> "raw body"],
                        !.settings.pretty_print_response_content = FALSE,
                        !.settings.allow_redirects = FALSE]

(************************ assembly (send_request) *************************)
client_of(settings) ==
    [referer |-> FALSE,
     redirect |-> IF settings.allow_redirects THEN "default" ELSE "none",
     cookie_store |-> settings.store_received_cookies,
     proxies |-> IF settings.use_config_proxy /\ Config.proxy.some
                   THEN Config.proxy.val ELSE <<>>]

auth_of(auth) ==
    CASE auth.type = "NoAuth" -> [type |-> "NoAuth"]
      [] auth.type = "BasicAuth" ->
            [type |-> "BasicAuth",
             username |-> replace_env_keys_by_value(auth.username),
             password |-> replace_env_keys_by_value(auth.password)]
      [] auth.type = "BearerToken" ->
            [type |-> "BearerToken",
             bearer_token |-> replace_env_keys_by_value(auth.bearer_token)]

\* One iteration of the multipart loop on the accumulator
\* [ok, parts, reads]: a pair is processed whatever its enabled flag.
multipart_step(acc, form_data, fs) ==
    LET key == replace_env_keys_by_value(form_data.data[1])
        value == replace_env_keys_by_value(form_data.data[2])
        got == get_file_content_with_name(path_of(value), fs)
    IN  IF starts_with_bangs(value)
          THEN IF got.ok
                 THEN [acc EXCEPT !.parts = Append(@, [name |-> key, kind |-> "file",
                                        value |-> got.content, file_name |-> Some(got.file_name)]),
                                  !.reads = Append(@, path_of(value))]
                 ELSE [acc EXCEPT !.ok = FALSE, !.reads = Append(@, path_of(value))]
          ELSE [acc EXCEPT !.parts = Append(@, [name |-> key, kind |-> "text",
                                        value |-> value, file_name |-> None])]

\* for form_data in form_data { .. }: the first failed read returns.
RECURSIVE multipart_loop(_, _, _)
multipart_loop(acc, form, fs) ==
    IF form = <<>> \/ ~acc.ok THEN acc
    ELSE multipart_loop(multipart_step(acc, Head(form), fs), Tail(form), fs)

\* A disabled header sent with an empty value instead of being skipped.
header_step_disabled_as_empty(acc, header) ==
    Append(acc, <<replace_env_keys_by_value(header.data[1]),
                  IF header.enabled THEN replace_env_keys_by_value(header.data[2])
                                    ELSE <<>> >>)

\* One iteration of the header loop on the headers added so far.
header_step(acc, header) ==
    IF ~header.enabled THEN acc
    ELSE Append(acc, <<replace_env_keys_by_value(header.data[1]),
                       replace_env_keys_by_value(header.data[2])>>)

RECURSIVE header_loop(_, _)
header_loop(acc, headers) ==
    IF headers = <<>> THEN acc
    ELSE header_loop(header_step(acc, Head(headers)), Tail(headers))

\* The request builder after CLIENT, PARAMS, URL, REQUEST, CORS and AUTH.
builder_of(req) ==
    [client |-> client_of(req.settings),
     method |-> req.method,
     url |-> replace_env_keys_by_value(req.url),
     query |-> key_value_vec_to_tuple_vec(req.params),
     no_cors |-> IF Config.disable_cors.some THEN Config.disable_cors.val ELSE FALSE,
     auth |-> auth_of(req.auth),
     body |-> [kind |-> "none"],
     headers |-> <<>>]

with_headers(builder, req) ==
    [builder EXCEPT !.headers = header_loop(<<>>, req.headers)]

\* The BODY match for the variants that do not suspend.
body_of(body, fs) ==
    CASE body.type = "NoBody" -> [ok |-> TRUE, payload |-> [kind |-> "none"], reads |-> <<>>]
      [] body.type = "Multipart" ->
            LET m == multipart_loop([ok |-> TRUE, parts |-> <<>>, reads |-> <<>>],
                                    body.form, fs)
            IN  [ok |-> m.ok, payload |-> [kind |-> "multipart", parts |-> m.parts],
                 reads |-> m.reads]
      [] body.type = "Form" ->
            [ok |-> TRUE,
             payload |-> [kind |-> "form", pairs |-> key_value_vec_to_tuple_vec(body.form)],
             reads |-> <<>>]
      [] body.type = "Raw" ->
            [ok |-> TRUE, payload |-> [kind |-> "text", text |-> body.text], reads |-> <<>>]

(************************ initial state ***********************************)
InitialWriter == [by |-> "init"]          \* a result field nobody has written yet
CallerWriter == [by |-> "send_request"]   \* a result field send_request wrote
TaskWriter(t) == [by |-> "task", id |-> t]

NoTask == [pc |-> "none"]
IdleCaller == [pc |-> "idle"]

InitWith(first) ==
    /\ requests = [r \in Requests |-> IF r = "r1" THEN first ELSE SecondRequest]
    /\ selected = "r1"
    /\ write_lock = [r \in Requests |-> "free"]
    /\ caller = IdleCaller
    /\ tasks = [t \in TaskIds |-> NoTask]
    /\ last_highlighted = Some("previous body")
    /\ files = {PathA}
    /\ ret = "none"
    /\ file_reads = <<>>
    /\ wrote = [r \in Requests |->
                  [f \in {"status_code", "body", "headers", "cookies", "duration"} |->
                      InitialWriter]]

Init == \E first \in CoreRequests : InitWith(first)

\* Assembly inputs: every header list and every multipart form within the bounds.
SeqsUpTo(S, n) == UNION {[1..k -> S] : k \in 0..n}

HeaderEntries ==
    { KV(<<"A">>, <<"1">>, TRUE), KV(<<"B">>, <<"2">>, FALSE),
      KV(<<"C">>, <<"3">>, TRUE), KV(<<"{{P}}">>, <<"x-", "{{U}}">>, TRUE) }

PairEntries ==
    { KV(<<"k">>, <<"{{U}}">>, TRUE), KV(<<"f">>, <<"!!">> \o PathA, TRUE),
      KV(<<"g">>, <<"{{F}}">>, FALSE), KV(<<"d">>, <<"x">>, FALSE) }

AsmRequests ==
    CoreRequests
    \cup {[BaseRequest EXCEPT !.headers = h] : h \in SeqsUpTo(HeaderEntries, MaxHeaders)}
    \cup {[BaseRequest EXCEPT !.body = [type |-> "Multipart", form |-> f]] :
             f \in SeqsUpTo(PairEntries, MaxPairs)}

InitAsm == \E first \in AsmRequests : InitWith(first)

(************************ send_request ************************************)
\* The guard left out: a call on a pending Request goes on to assemble.
rejects_as_pending_never(req) == FALSE

\* if selected_request.is_pending { return; }
rejects_as_pending(req) == req.is_pending

FreeTaskIds == {t \in TaskIds : tasks[t].pc = "none"}
NextTaskId == CHOOSE t \in FreeTaskIds : \A u \in FreeTaskIds : t <= u

CanCall == caller.pc = "idle" /\ write_lock[selected] = "free"

Returned(how, reads) ==
    /\ ret' = how
    /\ file_reads' = reads

\* A rejection that also wipes the previous response.
reject_with_clearing_body(req, sentinel) ==
    [req EXCEPT !.result.status_code = Some(sentinel), !.result.body = None]

\* selected_request.result.status_code = Some(String::from(<sentinel>)); return;
reject_with(req, sentinel) == [req EXCEPT !.result.status_code = Some(sentinel)]

RejectStep(r, sentinel) ==
    /\ requests' = [requests EXCEPT ![r] = reject_with(@, sentinel)]
    /\ wrote' = [wrote EXCEPT ![r].status_code = CallerWriter]

\* The call started inside send_request instead of being left to the task.
spawn_already_sending(ts, t, r, builder) ==
    [ts EXCEPT ![t] = [pc |-> "sending", req |-> r, call |-> builder]]

\* task::spawn(async move { .. }) with the builder moved into the task.
spawn(ts, t, r, builder) ==
    [ts EXCEPT ![t] = [pc |-> "spawned", req |-> r, call |-> builder]]

SendRequestPending ==
    /\ CanCall
    /\ rejects_as_pending(requests[selected])
    /\ Returned("pending", <<>>)
    /\ UNCHANGED <<requests, selected, write_lock, caller, tasks, last_highlighted,
                   files, wrote>>

SendRequestInvalidUrl ==
    /\ CanCall
    /\ ~rejects_as_pending(requests[selected])
    /\ ~UrlParses(builder_of(requests[selected]).url)
    /\ RejectStep(selected, INVALID_URL)
    /\ Returned("invalid_url", <<>>)
    /\ UNCHANGED <<selected, write_lock, caller, tasks, last_highlighted, files>>

SendRequestBodyFailed ==
    /\ CanCall
    /\ ~rejects_as_pending(requests[selected])
    /\ UrlParses(builder_of(requests[selected]).url)
    /\ requests[selected].body.type # "File"
    /\ LET b == body_of(requests[selected].body, files)
       IN  /\ ~b.ok
           /\ RejectStep(selected, COULD_NOT_OPEN_FILE)
           /\ Returned("no_file", b.reads)
    /\ UNCHANGED <<selected, write_lock, caller, tasks, last_highlighted, files>>

SendRequestSpawn ==
    /\ CanCall
    /\ ~rejects_as_pending(requests[selected])
    /\ UrlParses(builder_of(requests[selected]).url)
    /\ requests[selected].body.type # "File"
    /\ FreeTaskIds # {}
    /\ LET req == requests[selected]
           b == body_of(req.body, files)
       IN  /\ b.ok
           /\ tasks' = spawn(tasks, NextTaskId, selected,
                             with_headers([builder_of(req) EXCEPT !.body = b.payload], req))
           /\ Returned("spawned", b.reads)
    /\ UNCHANGED <<requests, selected, write_lock, caller, last_highlighted, files, wrote>>

\* ContentType::File: tokio::fs::File::open(path).await suspends send_request
\* while selected_request (the write guard) is still alive.
SendRequestOpenFile ==
    /\ CanCall
    /\ ~rejects_as_pending(requests[selected])
    /\ UrlParses(builder_of(requests[selected]).url)
    /\ requests[selected].body.type = "File"
    /\ FreeTaskIds # {}
    /\ caller' = [pc |-> "await_file", req |-> selected,
                  builder |-> builder_of(requests[selected]),
                  path |-> replace_env_keys_by_value(requests[selected].body.path)]
    /\ write_lock' = [write_lock EXCEPT ![selected] = "send_request"]
    /\ UNCHANGED <<requests, selected, tasks, last_highlighted, files, ret,
                   file_reads, wrote>>

FileOpenErr ==
    /\ caller.pc = "await_file"
    /\ caller.path \notin files
    /\ RejectStep(caller.req, COULD_NOT_OPEN_FILE)
    /\ Returned("no_file", <<caller.path>>)
    /\ caller' = IdleCaller
    /\ write_lock' = [write_lock EXCEPT ![caller.req] = "free"]
    /\ UNCHANGED <<selected, tasks, last_highlighted, files>>

FileOpenOk ==
    /\ caller.pc = "await_file"
    /\ caller.path \in files
    /\ tasks' = spawn(tasks, NextTaskId, caller.req,
                      with_headers([caller.builder EXCEPT
                                       !.body = [kind |-> "file", path |-> caller.path]],
                                   requests[caller.req]))
    /\ Returned("spawned", <<caller.path>>)
    /\ caller' = IdleCaller
    /\ write_lock' = [write_lock EXCEPT ![caller.req] = "free"]
    /\ UNCHANGED <<requests, selected, last_highlighted, files, wrote>>

(************************ environment *************************************)
\* The user selects another Request.
SelectRequest ==
    /\ caller.pc = "idle"
    /\ \E r \in Requests \ {selected} : selected' = r
    /\ UNCHANGED <<requests, write_lock, caller, tasks, last_highlighted, files,
                   ret, file_reads, wrote>>

\* A file is removed from disk.
FsChange ==
    /\ PathA \in files
    /\ files' = files \ {PathA}
    /\ UNCHANGED <<requests, selected, write_lock, caller, tasks, last_highlighted,
                   ret, file_reads, wrote>>

(************************ the transport ***********************************)
StatusText(code) ==
    CASE code = 200 -> "200 OK"
      [] code = 404 -> "404 Not Found"
      [] code = 500 -> "500 Internal Server Error"

CompactJson == "{\"a\":1}"
PrettyJson == "{\n  \"a\": 1\n}"

\* jsonxf::pretty_print
pretty_print(body) ==
    CASE body = CompactJson -> [ok |-> TRUE, val |-> PrettyJson]
      [] body = PrettyJson -> [ok |-> TRUE, val |-> PrettyJson]
      [] OTHER -> [ok |-> FALSE]

\* find_file_format_in_content_type: the format named by the content-type header.
RECURSIVE find_file_format_in_content_type(_)
find_file_format_in_content_type(headers) ==
    IF headers = <<>> THEN None
    ELSE IF Head(headers)[1] = "content-type"
           THEN CASE Head(headers)[2] = "application/json" -> Some("json")
                  [] Head(headers)[2] = "text/html" -> Some("html")
                  [] OTHER -> None
           ELSE find_file_format_in_content_type(Tail(headers))

\* What request.send().await can resolve to. text_ok: whether response.text()
\* then yields the body.
OkResponses ==
    { [ok |-> TRUE, status |-> 200, text_ok |-> TRUE, body |-> CompactJson,
       headers |-> << <<"content-type", "application/json">> >>, cookies |-> <<>>],
      [ok |-> TRUE, status |-> 404, text_ok |-> TRUE, body |-> CompactJson,
       headers |-> << <<"content-type", "text/html">>, <<"x-bin", "">> >>,
       cookies |-> << <<"sid", "1">>, <<"t", "2">> >>],
      [ok |-> TRUE, status |-> 200, text_ok |-> FALSE, body |-> "",
       headers |-> << <<"content-type", "application/json">> >>, cookies |-> <<>>] }

\* Responses the pretty-print block is explored on: a JSON body that
\* reformats, one that does not, another content type, and no content type.
NormResponses ==
    { [ok |-> TRUE, status |-> 200, text_ok |-> TRUE, body |-> CompactJson,
       headers |-> << <<"content-type", "application/json">> >>, cookies |-> <<>>],
      [ok |-> TRUE, status |-> 200, text_ok |-> TRUE, body |-> "{\"a\":",
       headers |-> << <<"x-bin", "">>, <<"content-type", "application/json">> >>,
       cookies |-> <<>>],
      [ok |-> TRUE, status |-> 200, text_ok |-> TRUE, body |-> CompactJson,
       headers |-> << <<"content-type", "text/html">> >>, cookies |-> <<>>],
      [ok |-> TRUE, status |-> 200, text_ok |-> TRUE, body |-> CompactJson,
       headers |-> << <<"x-bin", "">> >>, cookies |-> <<>>] }

ErrResponses ==
    { [ok |-> FALSE, status |-> None, text |-> "error sending request"],
      [ok |-> FALSE, status |-> Some(500), text |-> "HTTP status server error (500)"] }

\* cookies: format!("{}: {}", name, value) joined by "\n", as a token sequence.
RECURSIVE cookies_text(_)
cookies_text(cookies) ==
    IF cookies = <<>> THEN <<>>
    ELSE <<Head(cookies)[1], ": ", Head(cookies)[2]>>
         \o (IF Tail(cookies) = <<>> THEN <<>> ELSE <<"\n">>)
         \o cookies_text(Tail(cookies))

(************************ the spawned task ********************************)
\* A Request together with the record of who wrote its result fields.
Cell(r) == [req |-> requests[r], wrote |-> wrote[r]]

\* A write that lands in every Request rather than in the one behind the handle.
Store_in_every_request(r, cell) ==
    /\ requests' = [q \in Requests |-> [requests[q] EXCEPT !.result = cell.req.result,
                                                           !.is_pending = cell.req.is_pending]]
    /\ wrote' = [q \in Requests |-> cell.wrote]

\* A write that lands in the Request selected at the time of the write.
Store_in_selected(r, cell) ==
    /\ requests' = [requests EXCEPT ![selected] =
                        [@ EXCEPT !.result = cell.req.result,
                                  !.is_pending = cell.req.is_pending]]
    /\ wrote' = [wrote EXCEPT ![selected] = cell.wrote]

Store(r, cell) ==
    /\ requests' = [requests EXCEPT ![r] = cell.req]
    /\ wrote' = [wrote EXCEPT ![r] = cell.wrote]

\* The task storing the resolved credentials and URL back into the Request.
set_pending_storing_resolved(req) ==
    [req EXCEPT !.is_pending = TRUE,
                !.auth = auth_of(@),
                !.url = replace_env_keys_by_value(@)]

\* A task that wipes the previous result when it marks the Request pending.
set_pending_clearing_result(req) ==
    [req EXCEPT !.is_pending = TRUE, !.result = EmptyResult]

\* local_selected_request.write().unwrap().is_pending = true;
set_pending(req) == [req EXCEPT !.is_pending = TRUE]

\* A pretty-print block without the fallback: a body that does not reformat
\* is lost.
result_body_of_without_fallback(settings, headers, body) ==
    IF settings.pretty_print_response_content
      THEN LET fmt == find_file_format_in_content_type(headers)
           IN  IF fmt.some /\ fmt.val = "json"
                 THEN (IF pretty_print(body).ok THEN pretty_print(body).val ELSE "")
                 ELSE body
      ELSE body

\* The pretty-print block: the body the Ok branch stores.
result_body_of(settings, headers, body) ==
    IF settings.pretty_print_response_content
      THEN LET fmt == find_file_format_in_content_type(headers)
           IN  IF fmt.some /\ fmt.val = "json"
                 THEN (IF pretty_print(body).ok THEN pretty_print(body).val ELSE body)
                 ELSE body
      ELSE body

\* The headers left out of the locked block.
ok_write_back_without_headers(cell, t, status_code, result_body, cookies, headers) ==
    [req |-> [cell.req EXCEPT !.result.status_code = Some(status_code),
                              !.result.body = Some(result_body),
                              !.result.cookies = Some(cookies)],
     wrote |-> [cell.wrote EXCEPT !.status_code = TaskWriter(t), !.body = TaskWriter(t),
                                  !.cookies = TaskWriter(t)]]

\* The Ok branch's locked block.
ok_write_back(cell, t, status_code, result_body, cookies, headers) ==
    [req |-> [cell.req EXCEPT !.result.status_code = Some(status_code),
                              !.result.body = Some(result_body),
                              !.result.cookies = Some(cookies),
                              !.result.headers = headers],
     wrote |-> [cell.wrote EXCEPT !.status_code = TaskWriter(t), !.body = TaskWriter(t),
                                  !.cookies = TaskWriter(t), !.headers = TaskWriter(t)]]

\* An Err branch that reports a failure without a status as a marker string.
err_write_back_with_marker(cell, t, error) ==
    [req |-> [cell.req EXCEPT
                 !.result.status_code =
                     IF error.status.some THEN Some(StatusText(error.status.val))
                                          ELSE Some(COULD_NOT_OPEN_FILE),
                 !.result.body = Some(error.text),
                 !.result.cookies = None,
                 !.result.headers = <<>>],
     wrote |-> [cell.wrote EXCEPT !.status_code = TaskWriter(t), !.body = TaskWriter(t),
                                  !.cookies = TaskWriter(t), !.headers = TaskWriter(t)]]

\* An Err branch that leaves the previous cookies and headers in place.
err_write_back_keeping_cookies(cell, t, error) ==
    [req |-> [cell.req EXCEPT
                 !.result.status_code =
                     IF error.status.some THEN Some(StatusText(error.status.val)) ELSE None,
                 !.result.body = Some(error.text)],
     wrote |-> [cell.wrote EXCEPT !.status_code = TaskWriter(t), !.body = TaskWriter(t),
                                  !.cookies = TaskWriter(t), !.headers = TaskWriter(t)]]

\* The Err branch: error.status(), error.to_string() and its locked block.
err_write_back(cell, t, error) ==
    [req |-> [cell.req EXCEPT
                 !.result.status_code =
                     IF error.status.some THEN Some(StatusText(error.status.val)) ELSE None,
                 !.result.body = Some(error.text),
                 !.result.cookies = None,
                 !.result.headers = <<>>],
     wrote |-> [cell.wrote EXCEPT !.status_code = TaskWriter(t), !.body = TaskWriter(t),
                                  !.cookies = TaskWriter(t), !.headers = TaskWriter(t)]]

\* local_selected_request.write().unwrap().result.duration = Some(format!(..));
duration_write(cell, t) ==
    [req |-> [cell.req EXCEPT !.result.duration = Some("elapsed")],
     wrote |-> [cell.wrote EXCEPT !.duration = TaskWriter(t)]]

\* local_selected_request.write().unwrap().is_pending = false;
clear_pending(req) == [req EXCEPT !.is_pending = FALSE]

At(t, pc) == tasks[t].pc = pc
CanLock(t) == write_lock[tasks[t].req] = "free"
\* Move on, dropping the locals that have gone out of scope.
Goto(t, pc) == tasks' = [tasks EXCEPT ![t] = [pc |-> pc, req |-> @.req, call |-> @.call]]

TaskFrame == UNCHANGED <<selected, write_lock, caller, files, ret, file_reads>>

TaskStart(t) ==
    /\ At(t, "spawned") /\ CanLock(t)
    /\ requests' = [requests EXCEPT ![tasks[t].req] = set_pending(@)]
    /\ Goto(t, "sending")
    /\ UNCHANGED <<wrote, last_highlighted>> /\ TaskFrame

\* request.send().await yields Ok(response) and response.text().await yields
\* Ok(text); then, with no further suspension, the settings are read under the
\* read lock, the body is pretty-printed and the Ok branch's locked block runs.
TaskWriteOk(t, response) ==
    /\ At(t, "sending") /\ CanLock(t)
    /\ response.text_ok
    /\ Store(tasks[t].req,
             ok_write_back(Cell(tasks[t].req), t, StatusText(response.status),
                           result_body_of(requests[tasks[t].req].settings,
                                          response.headers, response.body),
                           cookies_text(response.cookies), response.headers))
    /\ Goto(t, "duration")
    /\ UNCHANGED last_highlighted /\ TaskFrame

\* response.text().await.unwrap() on Err: the task panics and is dropped.
TaskTextPanic(t, response) ==
    /\ At(t, "sending")
    /\ ~response.text_ok
    /\ Goto(t, "panicked")
    /\ UNCHANGED <<requests, wrote, last_highlighted>> /\ TaskFrame

\* request.send().await yields Err(error), then the Err branch's locked block.
TaskWriteErr(t, error) ==
    /\ At(t, "sending") /\ CanLock(t)
    /\ Store(tasks[t].req, err_write_back(Cell(tasks[t].req), t, error))
    /\ Goto(t, "duration")
    /\ UNCHANGED last_highlighted /\ TaskFrame

TaskDuration(t) ==
    /\ At(t, "duration") /\ CanLock(t)
    /\ Store(tasks[t].req, duration_write(Cell(tasks[t].req), t))
    /\ Goto(t, "clear_pending")
    /\ UNCHANGED last_highlighted /\ TaskFrame

TaskClearPending(t) ==
    /\ At(t, "clear_pending") /\ CanLock(t)
    /\ requests' = [requests EXCEPT ![tasks[t].req] = clear_pending(@)]
    /\ Goto(t, "clear_highlighted")
    /\ UNCHANGED <<wrote, last_highlighted>> /\ TaskFrame

\* *local_last_highlighted.write().unwrap() = None;
TaskClearHighlighted(t) ==
    /\ At(t, "clear_highlighted")
    /\ last_highlighted' = None
    /\ Goto(t, "done")
    /\ UNCHANGED <<requests, wrote>> /\ TaskFrame

TaskStep(t) ==
    \/ TaskStart(t)
    \/ \E response \in OkResponses : TaskWriteOk(t, response)
    \/ \E response \in OkResponses : TaskTextPanic(t, response)
    \/ \E error \in ErrResponses : TaskWriteErr(t, error)
    \/ TaskDuration(t)
    \/ TaskClearPending(t)
    \/ TaskClearHighlighted(t)

SendRequest ==
    \/ SendRequestPending
    \/ SendRequestInvalidUrl
    \/ SendRequestBodyFailed
    \/ SendRequestSpawn
    \/ SendRequestOpenFile
    \/ FileOpenErr
    \/ FileOpenOk

Next ==
    \/ SendRequest
    \/ SelectRequest
    \/ FsChange
    \/ \E t \in TaskIds : TaskStep(t)

Spec == Init /\ [][Next]_vars

\* The assembly explored on all inputs: calls and the start of the spawned tasks.
NextAsm ==
    \/ SendRequest
    \/ SelectRequest
    \/ FsChange
    \/ \E t \in TaskIds : TaskStart(t)

SpecAsm == InitAsm /\ [][NextAsm]_vars

\* The completion explored on the responses of the pretty-print block, for a
\* Request that asks for pretty-printing (r1) and one that does not (r2).
InitNorm == InitWith(BaseRequest)

NextNorm ==
    \/ SendRequestPending
    \/ SendRequestSpawn
    \/ SelectRequest
    \/ \E t \in TaskIds :
          \/ TaskStart(t)
          \/ \E response \in NormResponses : TaskWriteOk(t, response)
          \/ TaskDuration(t)
          \/ TaskClearPending(t)
          \/ TaskClearHighlighted(t)

SpecNorm == InitNorm /\ [][NextNorm]_vars

(************************ properties **************************************)
TasksOf(r) == {t \in TaskIds : tasks[t].pc # "none" /\ tasks[t].req = r}

\* A task that has not yet run the locked block that writes the four result
\* fields back.
BeforeWriteBack(t) == tasks[t].pc \in {"spawned", "sending"}

\* A task that still has a statement of the spawned block to run.
Running(t) == tasks[t].pc \in {"spawned", "sending", "duration", "clear_pending",
                               "clear_highlighted"}

\* A send_request call returning (every way out of the function).
SendRequestReturns ==
    \/ SendRequestPending
    \/ SendRequestInvalidUrl
    \/ SendRequestBodyFailed
    \/ SendRequestSpawn
    \/ FileOpenErr
    \/ FileOpenOk

\* C1: for every Request at most one spawned send task has not yet finished
\* its write-back.
C1_AtMostOneInFlight ==
    \A r \in Requests : Cardinality({t \in TasksOf(r) : BeforeWriteBack(t)}) <= 1

\* C2: once send_request has accepted a send and released the Request's lock,
\* is_pending is true for as long as that send has not written its result back.
C2_PendingWhileDispatched ==
    \A t \in TaskIds :
        (BeforeWriteBack(t) /\ write_lock[tasks[t].req] = "free")
            => requests[tasks[t].req].is_pending

\* C3: a send_request call made while the selected Request is pending changes
\* neither the Request (is_pending, result, specification) nor the set of
\* spawned tasks, and starts nothing.
C3_PendingSendIsNoOp ==
    [][(requests[selected].is_pending /\ SendRequest)
          => UNCHANGED <<requests, wrote, tasks, write_lock, caller, last_highlighted,
                         selected>>]_vars

C3_Witness ==
    /\ ret = "pending"
    /\ requests[selected].is_pending
    /\ \E t \in TasksOf(selected) : tasks[t].pc = "sending"

\* C4: once every spawned send of a Request has come to its end, whatever the
\* outcome of the network call, the Request is Idle again.
C4_IdleAfterCompletion ==
    \A r \in Requests :
        (TasksOf(r) # {} /\ \A t \in TasksOf(r) : ~Running(t))
            => ~requests[r].is_pending

\* The Request a send_request step works on.
CalledRequest == IF caller.pc = "await_file" THEN caller.req ELSE selected

Resolved(form) == [i \in 1..Len(form) |-> replace_env_keys_by_value(form[i].data[2])]

\* Positions of the multipart values that name a file which cannot be read.
UnreadableAt(form, fs) ==
    {i \in 1..Len(form) : starts_with_bangs(Resolved(form)[i])
                          /\ path_of(Resolved(form)[i]) \notin fs}

Least(S) == CHOOSE i \in S : \A j \in S : i <= j

\* The files of the first k multipart pairs, in order.
FilePathsUpTo(form, k) ==
    LET files_first == SelectSeq(SubSeq(Resolved(form), 1, k), starts_with_bangs)
    IN  [i \in 1..Len(files_first) |-> path_of(files_first[i])]

UrlRejected(req) == ~UrlParses(replace_env_keys_by_value(req.url))

BodyRejected(req, fs) ==
    \/ req.body.type = "Multipart" /\ UnreadableAt(req.body.form, fs) # {}
    \/ req.body.type = "File" /\ replace_env_keys_by_value(req.body.path) \notin fs

ExpectedSentinel(req) == IF UrlRejected(req) THEN INVALID_URL ELSE COULD_NOT_OPEN_FILE

ExpectedReads(req, fs) ==
    CASE UrlRejected(req) -> <<>>
      [] ~UrlRejected(req) /\ req.body.type = "Multipart" ->
            FilePathsUpTo(req.body.form, Least(UnreadableAt(req.body.form, fs)))
      [] ~UrlRejected(req) /\ req.body.type = "File" ->
            <<replace_env_keys_by_value(req.body.path)>>

\* C5: a send_request call on an idle Request whose URL does not parse or whose
\* multipart/file body names an unreadable file writes the sentinel into
\* status_code and changes nothing else of the Request (body, headers, cookies
\* keep their prior values, is_pending stays false), spawns no task, and reads
\* no file after the first unreadable one.
C5_BuildRejected ==
    [][\A r \in Requests :
          (/\ r = CalledRequest
           /\ ~requests[r].is_pending
           /\ (UrlRejected(requests[r]) \/ BodyRejected(requests[r], files))
           /\ SendRequestReturns)
          => /\ requests'[r] =
                   [requests[r] EXCEPT !.result.status_code =
                                           Some(ExpectedSentinel(requests[r]))]
             /\ ~requests'[r].is_pending
             /\ tasks' = tasks
             /\ file_reads' = ExpectedReads(requests[r], files)]_vars

C5_Witness ==
    /\ ret = "no_file"
    /\ file_reads = <<PathA>>
    /\ \E r \in Requests :
          /\ requests[r].body.type = "Multipart"
          /\ Cardinality({i \in 1..Len(requests[r].body.form) :
                             starts_with_bangs(Resolved(requests[r].body.form)[i])}) > 1
          /\ requests[r].result.status_code = Some(COULD_NOT_OPEN_FILE)
          /\ requests[r].result.body.some
          /\ requests[r].result.cookies.some
          /\ ~requests[r].is_pending

IsSentinel(status_code) == status_code.some /\ status_code.val \in Sentinels

ExpectedHeaders(headers) ==
    LET enabled == SelectSeq(headers, LAMBDA h : h.enabled)
    IN  [i \in 1..Len(enabled) |->
            <<replace_env_keys_by_value(enabled[i].data[1]),
              replace_env_keys_by_value(enabled[i].data[2])>>]

\* C7: the call handed to a spawned task carries exactly the enabled headers
\* of its Request, name and value resolved, in their original order.
C7_EnabledHeadersInOrder ==
    \A t \in TaskIds :
        tasks[t].pc # "none"
            => tasks[t].call.headers = ExpectedHeaders(requests[tasks[t].req].headers)

C7_Witness ==
    \E t \in TaskIds :
        /\ tasks[t].pc # "none"
        /\ requests[tasks[t].req].headers =
              << KV(<<"A">>, <<"1">>, TRUE), KV(<<"B">>, <<"2">>, FALSE),
                 KV(<<"C">>, <<"3">>, TRUE) >>
        /\ tasks[t].call.headers = << <<(<<"A">>), (<<"1">>)>>, <<(<<"C">>), (<<"3">>)>> >>

\* C8: in every state a reader can observe, body, headers and cookies were
\* written by the same writer, and status_code by that writer too unless a
\* later build rejection replaced it with its sentinel.
C8_GroupedWrite ==
    \A r \in Requests :
        /\ wrote[r].body = wrote[r].headers
        /\ wrote[r].body = wrote[r].cookies
        /\ wrote[r].status_code \in {wrote[r].body, CallerWriter}

\* A second completion has replaced the result of a first one.
C8_Witness ==
    \E r \in Requests, t, u \in TaskIds :
        /\ t # u
        /\ wrote[r].body = TaskWriter(u)
        /\ wrote[r].duration = TaskWriter(t)
        /\ requests[r].result.headers # <<>>

\* C9: the write-back of a send that failed in the transport sets status_code
\* to the error's status if it has one and to None otherwise, body to the
\* error text, headers to the empty sequence and cookies to None.
C9_ErrWriteBack ==
    [][\A t \in TaskIds, error \in ErrResponses :
          TaskWriteErr(t, error)
             => LET res == requests'[tasks[t].req].result
                IN  /\ res.status_code = (IF error.status.some
                                            THEN Some(StatusText(error.status.val))
                                            ELSE None)
                    /\ res.body = Some(error.text)
                    /\ res.headers = <<>>
                    /\ res.cookies = None]_vars

\* A failure written over the result of an earlier completion.
C9_Witness ==
    \E r \in Requests, t, u \in TaskIds :
        /\ t # u
        /\ wrote[r].body = TaskWriter(u)
        /\ wrote[r].duration = TaskWriter(t)
        /\ requests[r].result.body = Some("HTTP status server error (500)")
        /\ requests[r].result.status_code = Some("500 Internal Server Error")
        /\ requests[r].result.headers = <<>>
        /\ requests[r].result.cookies = None

\* C10: every dispatched send whose attempt is over, successful or failed, has
\* recorded a duration.
C10_DurationRecorded ==
    \A t \in TaskIds :
        tasks[t].pc \in {"clear_highlighted", "done", "panicked"}
            => requests[tasks[t].req].result.duration.some

\* C11: send_request never waits for the network. The step in which it hands
\* a call over returns at once: the new task has not started, the caller is
\* back and the Request's lock is free; and no send_request step moves a
\* task that already exists, so none consumes a response.
C11_NeverWaitsForNetwork ==
    [][/\ \A t \in TaskIds :
             (tasks[t].pc = "none" /\ tasks'[t].pc # "none")
                => /\ tasks'[t].pc = "spawned"
                   /\ caller'.pc = "idle"
                   /\ write_lock'[tasks'[t].req] = "free"
                   /\ ret' = "spawned"
       /\ (\E t \in TaskIds : tasks[t].pc # "none" /\ tasks'[t] # tasks[t])
             => ~SendRequest]_vars

\* send_request has returned and released the lock; the network call of the
\* task it spawned is under way and has not completed.
C11_Witness ==
    /\ ret = "spawned"
    /\ caller.pc = "idle"
    /\ \E t \in TaskIds :
          /\ tasks[t].pc = "sending"
          /\ tasks[t].req = selected
          /\ write_lock[selected] = "free"
          /\ \A u \in TaskIds \ {t} : tasks[u].pc = "none"

\* C12: a Request's exclusive lock is never held across a suspension point:
\* in no state between two steps (the caller suspended in File::open, a task
\* suspended in send or text) is a write lock held.
C12_NoLockAcrossSuspension ==
    \A r \in Requests : write_lock[r] = "free"

EnabledPairs(form) == {i \in 1..Len(form) : form[i].enabled}

\* C13: only the enabled pairs of a multipart form are processed: the call
\* handed to a task has one part per enabled pair, and a form is rejected
\* with COULD NOT OPEN FILE only if an enabled pair names an unreadable file.
C13_OnlyEnabledPairs ==
    /\ \A r \in Requests :
          (/\ requests[r].body.type = "Multipart"
           /\ requests[r].result.status_code = Some(COULD_NOT_OPEN_FILE))
             => UnreadableAt(requests[r].body.form, files)
                   \cap EnabledPairs(requests[r].body.form) # {}
    /\ \A t \in TaskIds :
          (tasks[t].pc # "none" /\ tasks[t].call.body.kind = "multipart")
             => Len(tasks[t].call.body.parts)
                   = Cardinality(EnabledPairs(requests[tasks[t].req].body.form))

\* C14: a completing send clears last_highlighted before it sets the Request
\* back to Idle: once a task has set is_pending to false and the Request is
\* observed Idle, last_highlighted is None.
C14_HighlightClearedBeforeIdle ==
    \A t \in TaskIds :
        (/\ tasks[t].pc \in {"clear_highlighted", "done"}
         /\ ~requests[tasks[t].req].is_pending)
            => last_highlighted = None

\* Position of a task in the spawned block, in program order.
Rank(pc) ==
    CASE pc = "none" -> 0
      [] pc = "spawned" -> 1
      [] pc = "sending" -> 2
      [] pc = "duration" -> 3
      [] pc = "clear_pending" -> 4
      [] pc = "clear_highlighted" -> 5
      [] pc \in {"done", "panicked"} -> 6

\* No step takes a task back to an earlier statement or removes it, and the
\* four result fields are written by a task only in the step that ends its
\* network call.
NoRetryNoCancel ==
    \A t \in TaskIds :
        /\ Rank(tasks'[t].pc) >= Rank(tasks[t].pc)
        /\ tasks[t].pc # "none" => tasks'[t].req = tasks[t].req
        /\ \A r \in Requests :
              (wrote'[r].body = TaskWriter(t) /\ wrote[r].body # TaskWriter(t))
                 => (r = tasks[t].req /\ tasks[t].pc = "sending"
                     /\ tasks'[t].pc = "duration")

\* A task that has set is_pending back to false writes the Request no more.
NoWriteAfterIdle ==
    \A t \in TaskIds :
        (tasks[t].pc \in {"clear_highlighted", "done"} /\ tasks'[t] # tasks[t])
            => (requests' = requests /\ wrote' = wrote)

\* C15: every accepted send makes one network call and one completion
\* write-back: a task never goes back or disappears, its network call ends
\* in the write-back of the four result fields by that task, and after it has
\* set is_pending to false it writes the Request no more.
C15_OneCallOneWriteBack ==
    [][/\ NoRetryNoCancel
       /\ NoWriteAfterIdle
       /\ \A t \in TaskIds :
             (tasks[t].pc = "sending" /\ tasks'[t].pc # "sending")
                => wrote'[tasks[t].req].body = TaskWriter(t)]_vars

\* C16: sends on different Requests are independent: a step of a task leaves
\* every Request other than the task's own unchanged, result and is_pending
\* alike, whatever the other Requests' sends are doing.
C16_OtherRequestsUntouched ==
    [][\A t \in TaskIds, r \in Requests :
          (/\ tasks[t].pc # "none"
           /\ r # tasks[t].req
           /\ tasks'[t] # tasks[t])
             => (requests'[r] = requests[r] /\ wrote'[r] = wrote[r])]_vars

\* Two Requests were in flight together, and the send spawned later has
\* completed while the earlier one is still in its network call.
C16_Witness ==
    \E t, u \in TaskIds :
        /\ t < u
        /\ tasks[t].pc = "sending" /\ tasks[u].pc = "done"
        /\ tasks[t].req # tasks[u].req
        /\ requests[tasks[t].req].is_pending
        /\ ~requests[tasks[u].req].is_pending
        /\ wrote[tasks[u].req].body = TaskWriter(u)
        /\ wrote[tasks[t].req].body = InitialWriter

\* The part of a Request the user edits: what to send and how.
SpecificationOf(req) ==
    [f \in {"method", "url", "params", "headers", "auth", "body", "settings"} |-> req[f]]

\* C17: no step of send_request or of a task changes a Request's method, url,
\* params, headers, auth, body or settings: only result and is_pending (and
\* last_highlighted) are written, so the templates are never replaced by
\* their resolved values.
C17_SpecificationUnchanged ==
    [][\A r \in Requests :
          SpecificationOf(requests'[r]) = SpecificationOf(requests[r])]_vars

\* A send was accepted with resolved credentials and has completed, a later
\* send of the same Request was rejected, and the Request still holds the
\* templates.
C17_Witness ==
    \E t \in TaskIds :
        /\ tasks[t].pc = "done"
        /\ tasks[t].call.auth =
              [type |-> "BasicAuth", username |-> <<"a">>, password |-> <<"b">>]
        /\ requests[tasks[t].req].auth =
              [type |-> "BasicAuth", username |-> <<"{{U}}">>, password |-> <<"{{P}}">>]
        /\ requests[tasks[t].req].params[1].data[2] = <<"{{U}}">>
        /\ requests[tasks[t].req].result.status_code = Some(COULD_NOT_OPEN_FILE)
        /\ wrote[tasks[t].req].body = TaskWriter(t)
        /\ ret = "no_file"

ContentTypeIsJson(headers) ==
    \E i \in 1..Len(headers) :
        headers[i][1] = "content-type" /\ headers[i][2] = "application/json"

\* The body the claim expects the Ok branch to store.
ExpectedBody(settings, response) ==
    IF /\ settings.pretty_print_response_content
       /\ ContentTypeIsJson(response.headers)
       /\ pretty_print(response.body).ok
      THEN pretty_print(response.body).val
      ELSE response.body

\* C18: on a successful response the stored body is the reformatted text
\* when the Request asks for pretty-printing, the content type says JSON and
\* the reformatting succeeds, and the received text unchanged in every other
\* case; in all cases the task goes on to record the duration and to set the
\* Request back to Idle.
C18_PrettyPrintBestEffort ==
    [][\A t \in TaskIds, response \in NormResponses :
          (tasks[t].pc = "sending" /\ TaskWriteOk(t, response))
             => /\ requests'[tasks[t].req].result.body
                      = Some(ExpectedBody(requests[tasks[t].req].settings, response))
                /\ tasks'[t].pc = "duration"]_vars

\* A JSON response that did not reformat was stored as received by a Request
\* that asks for pretty-printing, which is Idle again; the other Request
\* stored a JSON body unreformatted because it does not ask for it.
C18_Witness ==
    \E t, u \in TaskIds :
        /\ tasks[t].pc = "done" /\ tasks[u].pc = "done"
        /\ tasks[t].req = "r1" /\ tasks[u].req = "r2"
        /\ requests["r1"].settings.pretty_print_response_content
        /\ requests["r1"].result.body = Some("{\"a\":")
        /\ ContentTypeIsJson(requests["r1"].result.headers)
        /\ ~requests["r1"].is_pending
        /\ ~requests["r2"].settings.pretty_print_response_content
        /\ requests["r2"].result.body = Some(CompactJson)
        /\ ContentTypeIsJson(requests["r2"].result.headers)
        /\ ~requests["r2"].is_pending

\* C19: a task's handle is the Request that was selected when send_request
\* ran, and stays so; when another Request is selected while the send is in
\* flight, the task's steps write the result and is_pending of the Request
\* that was sent and leave the selected one untouched.
C19_WritesIntoSentRequest ==
    [][\A t \in TaskIds :
          /\ (tasks[t].pc = "none" /\ tasks'[t].pc # "none")
                => tasks'[t].req = CalledRequest
          /\ (tasks[t].pc # "none" /\ tasks'[t] # tasks[t])
                => /\ tasks'[t].req = tasks[t].req
                   /\ tasks[t].req # selected
                         => (requests'[selected] = requests[selected]
                             /\ wrote'[selected] = wrote[selected])
                   /\ tasks'[t].pc = "sending" => requests'[tasks[t].req].is_pending
                   /\ tasks'[t].pc = "duration"
                         => (/\ wrote'[tasks[t].req].body = TaskWriter(t)
                             /\ wrote'[tasks[t].req].status_code = TaskWriter(t))
                   /\ tasks'[t].pc = "clear_pending"
                         => wrote'[tasks[t].req].duration = TaskWriter(t)
                   /\ tasks'[t].pc = "clear_highlighted"
                         => ~requests'[tasks[t].req].is_pending]_vars

\* The selection moved to the other Request while the send was in flight:
\* the send has completed into the Request it was invoked on and the selected
\* Request has never been written.
C19_Witness ==
    \E t \in TaskIds :
        /\ tasks[t].pc = "done"
        /\ tasks[t].req # selected
        /\ \A f \in DOMAIN wrote[selected] :
              /\ wrote[tasks[t].req][f] = TaskWriter(t)
              /\ wrote[selected][f] = InitialWriter
        /\ requests[selected].result = EmptyResult
        /\ ~requests[selected].is_pending
        /\ requests[tasks[t].req].result.body.some
        /\ \A u \in TaskIds \ {t} : tasks[u].pc = "none"

\* C20: accepting a send clears nothing: the steps from the acceptance up to
\* the network call (send_request suspending in the file open, the spawn, the
\* task marking the Request pending) leave status_code, body, headers,
\* cookies and duration of every Request as the previous attempt left them.
C20_AcceptingKeepsResult ==
    [][(\/ (caller' # caller /\ caller'.pc = "await_file")
        \/ \E t \in TaskIds :
              /\ tasks'[t] # tasks[t]
              /\ tasks'[t].pc \in {"spawned", "sending"})
          => /\ \A r \in Requests : requests'[r].result = requests[r].result
             /\ wrote' = wrote]_vars

\* A reader sees the Request pending for its second send together with the
\* complete result of the first one.
C20_Witness ==
    \E t, u \in TaskIds :
        /\ tasks[t].pc = "sending" /\ tasks[u].pc = "done"
        /\ tasks[t].req = tasks[u].req
        /\ requests[tasks[t].req].is_pending
        /\ \A f \in DOMAIN wrote[tasks[t].req] : wrote[tasks[t].req][f] = TaskWriter(u)
        /\ requests[tasks[t].req].result.status_code = Some("404 Not Found")
        /\ requests[tasks[t].req].result.body.some
        /\ requests[tasks[t].req].result.headers # <<>>
        /\ requests[tasks[t].req].result.cookies.some
        /\ requests[tasks[t].req].result.duration.some

====
